---- MODULE Spec2Model ----
(***************************************************************************)
(* Remoting Hub of spinoff (src/spinoff/actor/remoting.py) on its mock     *)
(* network: two Hubs "A" and "B" built by MockNetwork.node on one shared   *)
(* Clock, plus the address "X" on which nobody listens.                    *)
(*                                                                         *)
(* Time is counted in seconds.  Clock.advance moves the clock by the step  *)
(* simulate was given and then runs both LoopingCalls of every Hub once,   *)
(* one after the other (variable calls).  MockNetwork.transmit             *)
(* empties the network queue into the list of deliverable frames and then  *)
(* hands them to gotMessage one after the other (variable deliverable).    *)
(* No other operation runs while calls or deliverable is non-empty.        *)
(*                                                                         *)
(* Actor of unnamedframework (src/unnamedframework/actor/actor.py): the    *)
(* Actor objects of a run (variable actors), the methods start, pause,     *)
(* resume, stop, spawn, send and get as operators on them, and the calls   *)
(* a test makes as actions.  The Hub specifications leave actors alone,    *)
(* the Actor specifications leave the Hubs alone.                          *)
(*                                                                         *)
(* Hub._loads with its unpickler and match of spinoff/util/                *)
(* pattern_matching.py are functions of their arguments: a specification   *)
(* for one of them starts with the arguments of one call (variable call)   *)
(* and its one action is the call.                                         *)
(***************************************************************************)
EXTENDS Integers, Sequences, FiniteSets, TLC

\* ---------------------------------------------------------------- bounds
MaxTime == 6
MaxSends == 2
MaxTimeLong == 118
MaxActors == 2
MaxInbox == 3
MaxLen == 2

\* ------------------------------------------------------- program constants
max_silence_between_heartbeats == 5
time_to_keep_hope == 55
queue_item_lifetime == max_silence_between_heartbeats + max_silence_between_heartbeats
tick_interval == 1

PING == "ping"
PONG == "pong"
PICKLE == "pickle"

Hubs == {"A", "B"}
Addrs == Hubs \cup {"X"}
RegPaths == {"/actor"}
Paths == RegPaths \cup {"/nope"}
NoNode == "None"

\* Option values: conn.queue is None or a deque
None == <<>>
Some(q) == <<q>>
IsNone(o) == o = <<>>
\* truthiness of conn.queue: a non-empty deque
Pending(o) == IF o = <<>> THEN <<>> ELSE o[1]

VARIABLES
    now,              \* Clock.seconds()
    connections,      \* Hub.connections: per Hub, addr -> ConnectedNode
    registry,         \* Hub.registry: per Hub, the registered paths
    messages,         \* MagicActor.messages of the actor at (Hub, path)
    events,           \* Events.log: the DeadLetters emitted, in order
    net_connections,  \* MockNetwork.connections
    packet_loss,      \* MockNetwork._packet_loss (percent)
    queue,            \* MockNetwork.queue
    deliverable,      \* transmit: frames not yet handed to gotMessage
    calls,            \* Clock.advance: due calls not yet run
    sim,              \* MockNetwork.simulate: where its loop stands, time_left,
                      \* and of the running call: duration, the time it began
                      \* and the transmit calls it has made
    raised,           \* the assertion that failed last, "" if none
    requests,         \* history: the send_message calls and what each did, payload i at index i
    got,              \* history: the payload frames got_message handled
    heard,            \* history: per Hub, addr -> kind of the last frame got_message took from it
    actors,           \* the Actor objects (unnamedframework/actor/actor.py), by number
    call              \* a call of a function of its arguments alone: the
                      \* arguments and, once it has returned, the result

actorVars == <<actors>>

vars == <<now, connections, registry, messages, events, net_connections,
          packet_loss, queue, deliverable, calls, sim, raised, requests,
          got, heard, actors, call>>

\* ------------------------------------------------------------ data types
\* mutant of ConnectedNode: the new peer starts with its queue given up
ConnectedNodeAbandoned(state, last_seen) ==
    [state |-> state, last_seen |-> last_seen, queue |-> None]

ConnectedNode(state, last_seen) ==
    [state |-> state, last_seen |-> last_seen, queue |-> Some(<<>>)]

Ref(target, path, node) == [target |-> target, path |-> path, node |-> node]
DeadLetter(ref, msg) == [ref |-> ref, msg |-> msg]

Signal(s) == [kind |-> s, proto |-> 0, path |-> "", msg |-> 0]
\* cPickle.dumps((path, msg), protocol): bytes that are neither "ping" nor "pong"
dumps(path, msg, protocol) ==
    [kind |-> PICKLE, proto |-> protocol, path |-> path, msg |-> msg]
\* Hub._loads: the (path, msg) pair of a pickle of either protocol
loads(data) == <<data.path, data.msg>>
\* bytes that are neither a heartbeat nor a pickle: Unpickler.load raises
Malformed == [kind |-> "malformed", proto |-> 0, path |-> "", msg |-> 0]
Decodes(data) == data.kind = PICKLE

\* The part of the program state the Hub's handlers read and write.
World ==
    [connections |-> connections, net_connections |-> net_connections,
     queue |-> queue, events |-> events, messages |-> messages,
     raised |-> raised]

\* ------------------------------------------------------------ MockNetwork
\* MockNetwork.bind: the addresses with a listening in-socket
listeners == Hubs

\* MockNetwork.connect, called through MockOutSocket.addEndpoints
connect(W, addr, endpoint) ==
    IF <<addr, endpoint>> \in W.net_connections
    THEN [W EXCEPT !.raised = "already connected"]
    ELSE [W EXCEPT !.net_connections = @ \cup {<<addr, endpoint>>}]

\* MockNetwork.enqueue, called through MockOutSocket.sendMsg
enqueue(W, src, dst, msg) ==
    IF <<src, dst>> \notin W.net_connections
    THEN [W EXCEPT !.raised = "not connected"]
    ELSE [W EXCEPT !.queue = Append(@, [src |-> src, dst |-> dst, msg |-> msg])]

\* transmit's loop over the queue: frame i is lost when random() <= loss.
\* lost is the set of queue positions for which the draw came out that way.
CanLose(f) == packet_loss[<<f.src, f.dst>>] > 0
MustLose(f) == packet_loss[<<f.src, f.dst>>] = 100

\* mutant of Deliverable: the frames are handed over last first
RECURSIVE DeliverableReversed(_, _, _)
DeliverableReversed(q, i, lost) ==
    IF i > Len(q) THEN <<>>
    ELSE IF i \in lost \/ q[i].dst \notin listeners
         THEN DeliverableReversed(q, i + 1, lost)
         ELSE DeliverableReversed(q, i + 1, lost)
              \o <<[msg |-> q[i].msg, src |-> q[i].src, sock |-> q[i].dst]>>

RECURSIVE Deliverable(_, _, _)
Deliverable(q, i, lost) ==
    IF i > Len(q) THEN <<>>
    ELSE IF i \in lost \/ q[i].dst \notin listeners
         THEN Deliverable(q, i + 1, lost)
         ELSE <<[msg |-> q[i].msg, src |-> q[i].src, sock |-> q[i].dst]>>
              \o Deliverable(q, i + 1, lost)

\* -------------------------------------------------------------------- Hub
emit_deadletter(W, path, node, msg) ==
    [W EXCEPT !.events = Append(@, DeadLetter(Ref("None", path, node), msg))]

heartbeat_one(W, h, addr, signal) == enqueue(W, h, addr, Signal(signal))

\* mutant of FirstSignal: a new peer is always greeted with a PING
FirstSignalPing(conn) == PING

FirstSignal(conn) == IF conn.state = "radiosilence" THEN PING ELSE PONG

\* mutant of _connect: the heartbeat is sent without adding the endpoint
_connectNoEndpoint(W, h, addr, conn) ==
    heartbeat_one(W, h, addr, FirstSignal(conn))

_connect(W, h, addr, conn) ==
    heartbeat_one(connect(W, h, addr), h, addr, FirstSignal(conn))

\* mutant of InitialLastSeen: the new peer counts as seen just now
InitialLastSeenNow(t) == t

\* last_seen of a ConnectedNode made by send_message at time t
InitialLastSeen(t) == t - max_silence_between_heartbeats

\* mutant of Dispatch: a message for a visible peer is queued like any other
DispatchQueued(W, h, conn, path, node, msg, t) ==
    IF IsNone(conn.queue)
    THEN emit_deadletter(W, path, node, msg)
    ELSE [W EXCEPT !.connections[h][node].queue =
               Some(Append(@[1], <<<<path, node, msg>>, t>>))]

\* mutant of Dispatch: a message for a peer whose queue is None is dropped
\* without a DeadLetter
DispatchDrop(W, h, conn, path, node, msg, t) ==
    IF conn.state = "visible"
    THEN enqueue(W, h, node, dumps(path, msg, 0))
    ELSE IF IsNone(conn.queue)
         THEN W
         ELSE [W EXCEPT !.connections[h][node].queue =
                    Some(Append(@[1], <<<<path, node, msg>>, t>>))]

\* what send_message does with a message for a peer it has a connection to
Dispatch(W, h, conn, path, node, msg, t) ==
    IF conn.state = "visible"
    THEN enqueue(W, h, node, dumps(path, msg, 0))
    ELSE IF IsNone(conn.queue)
         THEN emit_deadletter(W, path, node, msg)
         ELSE [W EXCEPT !.connections[h][node].queue =
                    Some(Append(@[1], <<<<path, node, msg>>, t>>))]

send_message(W, h, path, node, msg, t) ==
    LET addr == node
        known == addr \in DOMAIN W.connections[h]
        conn == IF known THEN W.connections[h][addr]
                ELSE ConnectedNode("radiosilence", InitialLastSeen(t))
        W1 == IF known THEN W
              ELSE _connect([W EXCEPT !.connections[h] = (addr :> conn) @@ @],
                            h, addr, conn)
    IN  Dispatch(W1, h, conn, path, node, msg, t)

\* mutant of Deliver: a payload for an unregistered path is dropped silently
DeliverOrDrop(W, h, data) ==
    IF data.kind \in {PING, PONG} THEN W
    ELSE IF loads(data)[1] \in registry[h]
         THEN [W EXCEPT !.messages[h][loads(data)[1]] = Append(@, loads(data)[2])]
         ELSE W

\* got_message, lines 109-117: a payload goes to the registered actor or
\* becomes a DeadLetter; heartbeats go nowhere
Deliver(W, h, data) ==
    IF data.kind \in {PING, PONG} THEN W
    ELSE LET path == loads(data)[1]
             msg_ == loads(data)[2]
         IN  IF path \in registry[h]
             THEN [W EXCEPT !.messages[h][path] = Append(@, msg_)]
             ELSE [W EXCEPT !.events =
                        Append(@, DeadLetter(Ref("None", path, NoNode), msg_))]

\* mutant of Flush: a peer that answers gets an empty queue again
RECURSIVE FlushReopen(_, _, _)
FlushReopen(W, h, sender_addr) ==
    LET q == Pending(W.connections[h][sender_addr].queue)
    IN  IF q = <<>> THEN [W EXCEPT !.connections[h][sender_addr].queue = Some(<<>>)]
        ELSE LET item == Head(q)[1]
                 W1 == [W EXCEPT !.connections[h][sender_addr].queue = Some(Tail(q))]
             IN  FlushReopen(enqueue(W1, h, sender_addr, dumps(item[1], item[3], 2)),
                             h, sender_addr)

\* mutant of Flush: the queue is popped from the right
RECURSIVE FlushLifo(_, _, _)
FlushLifo(W, h, sender_addr) ==
    LET q == Pending(W.connections[h][sender_addr].queue)
    IN  IF q = <<>> THEN W
        ELSE LET item == q[Len(q)][1]
                 W1 == [W EXCEPT !.connections[h][sender_addr].queue =
                            Some(SubSeq(q, 1, Len(q) - 1))]
             IN  FlushLifo(enqueue(W1, h, sender_addr, dumps(item[1], item[3], 2)),
                           h, sender_addr)

\* mutant of Flush: the queue is left as it is
FlushSkip(W, h, sender_addr) == W

\* mutant of Flush: the queue is emptied and nothing is sent
FlushDrop(W, h, sender_addr) ==
    IF IsNone(W.connections[h][sender_addr].queue) THEN W
    ELSE [W EXCEPT !.connections[h][sender_addr].queue = Some(<<>>)]

\* got_message, lines 135-137: the queue is popped from the left and sent
RECURSIVE Flush(_, _, _)
Flush(W, h, sender_addr) ==
    LET q == Pending(W.connections[h][sender_addr].queue)
    IN  IF q = <<>> THEN W
        ELSE LET item == Head(q)[1]
                 W1 == [W EXCEPT !.connections[h][sender_addr].queue = Some(Tail(q))]
             IN  Flush(enqueue(W1, h, sender_addr, dumps(item[1], item[3], 2)),
                       h, sender_addr)

\* mutant of NewState: every frame makes its sender visible
NewStateVisible(data) == "visible"

\* what self._loads(msg) raises out of got_message, line 112
UnpicklingError == "could not unpickle"

NewState(data) == IF data.kind = PING THEN "reverse-radiosilence" ELSE "visible"

got_message(W, h, sender_addr, data, t) ==
    LET W1 == Deliver(W, h, data)
    IN  IF data.kind \notin {PING, PONG} /\ ~Decodes(data)
        THEN [W EXCEPT !.raised = UnpicklingError]
        ELSE
        IF sender_addr \notin DOMAIN W1.connections[h]
        THEN IF data.kind # PING
             THEN [W1 EXCEPT !.raised = "initial message should be PING"]
             ELSE LET conn == ConnectedNode("reverse-radiosilence", t)
                  IN  _connect([W1 EXCEPT !.connections[h] = (sender_addr :> conn) @@ @],
                               h, sender_addr, conn)
        ELSE LET prevstate == W1.connections[h][sender_addr].state
                 W2 == [W1 EXCEPT !.connections[h][sender_addr].last_seen = t,
                                  !.connections[h][sender_addr].state = NewState(data)]
             IN  IF prevstate # "visible" /\ NewState(data) = "visible"
                 THEN Flush(W2, h, sender_addr)
                 ELSE W2

\* send_heartbeat, one turn of the loop over connections.items().  exc tells
\* that the turn raised: iterating conn.queue when it is None is a TypeError.
ConsiderLost(conn, t) ==
    conn.last_seen < (t - max_silence_between_heartbeats) - time_to_keep_hope
ConsiderDead(conn, t) ==
    conn.last_seen < t - max_silence_between_heartbeats

\* mutant of DeadLetterAll: only the oldest item of the queue gets a
\* DeadLetter
DeadLetterOldest(W, q) ==
    IF q = <<>> THEN W
    ELSE emit_deadletter(W, Head(q)[1][1], Head(q)[1][2], Head(q)[1][3])

RECURSIVE DeadLetterAll(_, _)
DeadLetterAll(W, q) ==
    IF q = <<>> THEN W
    ELSE DeadLetterAll(emit_deadletter(W, Head(q)[1][1], Head(q)[1][2], Head(q)[1][3]),
                       Tail(q))

HeartbeatConn(W, h, addr, t) ==
    LET conn == W.connections[h][addr]
    IN  IF conn.state = "silentlyhoping"
        THEN [W |-> heartbeat_one(W, h, addr, PING), exc |-> FALSE]
        ELSE IF ConsiderLost(conn, t)
        THEN LET W1 == [W EXCEPT !.connections[h][addr].state = "silentlyhoping"]
             IN  IF IsNone(conn.queue)
                 THEN [W |-> W1, exc |-> TRUE]
                 ELSE [W |-> heartbeat_one(
                                [DeadLetterAll(W1, conn.queue[1])
                                    EXCEPT !.connections[h][addr].queue = None],
                                h, addr, PING),
                       exc |-> FALSE]
        ELSE IF ConsiderDead(conn, t)
        THEN [W |-> heartbeat_one(
                        [W EXCEPT !.connections[h][addr].state = "radiosilence"],
                        h, addr, PING),
              exc |-> FALSE]
        ELSE [W |-> heartbeat_one(W, h, addr, PONG), exc |-> FALSE]

\* send_heartbeat: the loop, in the order items() gives; the except clause
\* around the whole loop ends it at the first turn that raises
RECURSIVE send_heartbeat(_, _, _, _)
send_heartbeat(W, h, order, t) ==
    IF order = <<>> THEN W
    ELSE LET r == HeartbeatConn(W, h, Head(order), t)
         IN  IF r.exc THEN r.W ELSE send_heartbeat(r.W, h, Tail(order), t)

\* mutant of Expired: an item aged exactly queue_item_lifetime is dropped too
ExpiredLoose(timestamp, t) == ~(timestamp > t - queue_item_lifetime)

\* clean_queue, the while loop on one connection's queue
Expired(timestamp, t) == ~(timestamp >= t - queue_item_lifetime)

RECURSIVE CleanConn(_, _, _, _)
CleanConn(W, h, addr, t) ==
    LET q == Pending(W.connections[h][addr].queue)
    IN  IF q = <<>> THEN W
        ELSE IF ~Expired(Head(q)[2], t) THEN W
        ELSE LET m == Head(q)[1]
                 W1 == [W EXCEPT !.connections[h][addr].queue = Some(Tail(q))]
             IN  CleanConn(emit_deadletter(W1, m[1], m[2], m[3]), h, addr, t)

RECURSIVE clean_queue(_, _, _, _)
clean_queue(W, h, order, t) ==
    IF order = <<>> THEN W
    ELSE clean_queue(CleanConn(W, h, Head(order), t), h, Tail(order), t)

\* the orders in which a dict with these keys may be iterated
Orders(S) ==
    {o \in [1..Cardinality(S) -> S] : \A i, j \in 1..Cardinality(S) : i # j => o[i] # o[j]}

\* ----------------------------------------------------------------- Actor
\* The Actor objects of a run are numbered as they are made: 1 is made by
\* Actor() (or a subclass), the others by spawn.  actors is the sequence of
\* the Actors made so far.
ActorIds == 1..(MaxActors + 1)
NoParent == 0

NOT_STARTED == "NOT_STARTED"
RUNNING == "RUNNING"
PAUSED == "PAUSED"
STOPPED == "STOPPED"

\* What run is.  "plain" is a function that returns None (Actor.run),
\* "raises" a function that raises; the others are generators that yield
\* one Deferred and return when it has a value, and that, when ActorStopped
\* is thrown in, let it pass ("waits"), catch it and returnValue ("returns")
\* or catch it and yield again ("refuses").
Functions == {"plain", "raises"}
Generators == {"waits", "returns", "refuses"}
Kinds == Functions \cup Generators

\* a result of a Deferred: a value, or a Failure wrapping an exception
Value(v) == [failure |-> FALSE, value |-> v]
Failure(e) == [failure |-> TRUE, value |-> e]

\* the fields of an Actor after __init__, but for what run is
NoActor ==
    [kind |-> "none", state |-> NOT_STARTED, gen |-> "none", on_hold_d |-> "none",
     current_d |-> FALSE, paused_result |-> None, d |-> "none", result |-> None,
     joining |-> None,
     wrap |-> "none", spawned |-> FALSE, parent |-> NoParent, children |-> <<>>, inbox |-> <<>>,
     waiting |-> None, got_d |-> <<>>, runs |-> 0, resumed |-> <<>>]

\* The fields of an Actor: state is _state; gen is _gen ("none": None, the
\* return value of a function; "suspended": a generator at its yield;
\* "closed": a generator that has finished); wrap is the generator made by
\* __init__'s wrap ("waiting": suspended on the Deferred it handed to
\* _fire_current_d); on_hold_d is _on_hold_d ("pending" or "fired");
\* current_d tells whether _current_d is set; d is self.d ("pending" or
\* "fired") and result what it fired with; joining is the
\* DeferredList of _on_complete, as the set of children it still waits for;
\* spawned tells that _spawn_child's remove callback is still to run on d;
\* waiting is _waiting, got_d the results the Deferreds of get were fired
\* with.  runs and resumed are history: how often run was called, and the
\* results sent into the generator.

\* messages: what the tests send, and the ('exit', child, reason) tuple
Msg(v) == [tag |-> "msg", who |-> 0, val |-> v]
Exit(child, reason) == [tag |-> "exit", who |-> child, val |-> reason]

\* A pattern is None or MATCH(fn): fn is given by the set of messages it is
\* truthy on.  match returns (success, subject) for such a pattern.
NoFilter == [none |-> TRUE, accepts |-> {}]
MATCH(S) == [none |-> FALSE, accepts |-> S]
match(pattern, subject) == <<subject \in pattern.accepts, subject>>

\* mutant of send: a waiter whose pattern does not match is forgotten
sendForgets(A, a, message) ==
    LET w == A[a].waiting
        found == IF w = None THEN None
                 ELSE IF w[1].none THEN Some(message)
                 ELSE IF match(w[1], message)[1] THEN Some(match(w[1], message)[2])
                 ELSE None
    IN  IF found # None
        THEN [A EXCEPT ![a].waiting = None, ![a].got_d = Append(@, found[1])]
        ELSE [A EXCEPT ![a].inbox = Append(@, message), ![a].waiting = None]

\* Actor.send
send(A, a, message) ==
    LET w == A[a].waiting
        found == IF w = None THEN None
                 ELSE IF w[1].none THEN Some(message)
                 ELSE IF match(w[1], message)[1] THEN Some(match(w[1], message)[2])
                 ELSE None
    IN  IF found # None
        THEN [A EXCEPT ![a].waiting = None, ![a].got_d = Append(@, found[1])]
        ELSE [A EXCEPT ![a].inbox = Append(@, message)]

\* the first message of inbox, from position i on, that pattern matches
RECURSIVE FirstMatch(_, _, _)
FirstMatch(inbox, pattern, i) ==
    IF i > Len(inbox) THEN 0
    ELSE IF match(pattern, inbox[i])[1] THEN i
    ELSE FirstMatch(inbox, pattern, i + 1)

\* mutant of get: a second waiter takes the place of the first
getReplacing(A, a, filter) ==
    LET inbox == A[a].inbox
        i == IF filter.none THEN 0 ELSE FirstMatch(inbox, filter, 1)
    IN  IF inbox # <<>> /\ filter.none
        THEN [A |-> [A EXCEPT ![a].inbox = Tail(inbox)], exc |-> "",
              ret |-> Some(Head(inbox))]
        ELSE IF i > 0
        THEN [A |-> A, exc |-> "", ret |-> Some(match(filter, inbox[i])[2])]
        ELSE [A |-> [A EXCEPT ![a].waiting = Some(filter)], exc |-> "", ret |-> None]

\* Actor.get: ret is what it returns when that is not a Deferred
get(A, a, filter) ==
    LET inbox == A[a].inbox
        i == IF filter.none THEN 0 ELSE FirstMatch(inbox, filter, 1)
    IN  IF inbox # <<>> /\ filter.none
        THEN [A |-> [A EXCEPT ![a].inbox = Tail(inbox)], exc |-> "",
              ret |-> Some(Head(inbox))]
        ELSE IF i > 0
        THEN [A |-> A, exc |-> "", ret |-> Some(match(filter, inbox[i])[2])]
        ELSE IF A[a].waiting # None
        THEN [A |-> A, exc |-> "QueueUnderflow", ret |-> None]
        ELSE [A |-> [A EXCEPT ![a].waiting = Some(filter)], exc |-> "", ret |-> None]

\* cancel() on the Deferred of the pending get: its canceller
cancel_get(A, a) == [A EXCEPT ![a].waiting = None]

\* Actor._on_complete: join_children is a DeferredList over the d of every
\* child in the list; it fires at once when none of them is pending
_on_complete(A, a) ==
    LET pending == {A[a].children[i] : i \in
                        {k \in 1..Len(A[a].children) : A[A[a].children[k]].d = "pending"}}
    IN  IF pending = {}
        THEN [A EXCEPT ![a].state = STOPPED]
        ELSE [A EXCEPT ![a].joining = Some(pending)]

\* list.remove(x): the list without the first x
RECURSIVE Remove(_, _)
Remove(list, x) ==
    IF list = <<>> THEN <<>>
    ELSE IF Head(list) = x THEN Tail(list)
    ELSE <<Head(list)>> \o Remove(Tail(list), x)

\* the DeferredLists waiting for a's d see it fire
JoinFired(A, a) ==
    [j \in DOMAIN A |->
        IF A[j].joining # None /\ a \in A[j].joining[1]
        THEN IF A[j].joining[1] = {a}
             THEN [A[j] EXCEPT !.joining = Some({}), !.state = STOPPED]
             ELSE [A[j] EXCEPT !.joining = Some(@[1] \ {a})]
        ELSE A[j]]

\* self.d fires with result: start's finally_, then _spawn_child's remove,
\* then the DeferredLists of the actors that are joining a
FireD(A, a, result) ==
    LET A1 == [A EXCEPT ![a].d = "fired", ![a].result = Some(result)]
        A2 == IF A1[a].parent # NoParent
              THEN send(A1, A1[a].parent, Exit(a, result.value))
              ELSE A1
        A3 == IF ~result.failure THEN _on_complete(A2, a) ELSE A2
        A4 == IF A3[a].spawned
              THEN [A3 EXCEPT ![A3[a].parent].children = Remove(@, a),
                              ![a].spawned = FALSE]
              ELSE A3
    IN  JoinFired(A4, a)

\* the Deferred wrap is suspended on fires: a Failure is raised in wrap,
\* which ends with it; a value is sent into the generator, which returns.
\* wrap's own Deferred is self.d; firing it a second time is an error that
\* the Deferred running the callback swallows.
DeliverToWrap(A, a, result) ==
    LET A1 == IF result.failure THEN [A EXCEPT ![a].wrap = "done"]
              ELSE [A EXCEPT ![a].wrap = "done",
                             ![a].gen = "closed",
                             ![a].resumed = IF A[a].gen = "suspended"
                                            THEN Append(@, result) ELSE @]
        out == IF result.failure THEN result ELSE Value("None")
    IN  IF A[a].wrap # "waiting" THEN A
        ELSE IF A1[a].d = "pending" THEN FireD(A1, a, out)
        ELSE A1

\* Actor._fire_current_d, the callback on the Deferred the generator yielded
_fire_current_d(A, a, result) ==
    IF A[a].state = RUNNING
    THEN DeliverToWrap(A, a, result)
    ELSE [A EXCEPT ![a].current_d = TRUE, ![a].paused_result = Some(result)]

\* a method's outcome: the Actors afterwards and the exception it raised
Ok(A) == [A |-> A, exc |-> ""]
Raise(A, e) == [A |-> A, exc |-> e]

\* Actor.pause; PauseChildren is its loop, from child i of a on
RECURSIVE pause(_, _), PauseChildren(_, _, _)
pause(A, a) ==
    IF A[a].state # RUNNING THEN Raise(A, "ActorNotRunning")
    ELSE PauseChildren([A EXCEPT ![a].state = PAUSED], a, 1)

PauseChildren(A, a, i) ==
    IF i > Len(A[a].children) THEN Ok(A)
    ELSE LET child == A[a].children[i]
         IN  IF A[child].state = RUNNING
             THEN LET r == pause(A, child)
                  IN  IF r.exc # "" THEN r ELSE PauseChildren(r.A, a, i + 1)
             ELSE PauseChildren(A, a, i + 1)

\* resume's delivery of the stashed result: a stashed Failure goes to
\* self._current_d.errbackback, which a Deferred does not have
Unstash(A, a) ==
    IF ~A[a].current_d THEN Ok(A)
    ELSE IF A[a].paused_result # None /\ A[a].paused_result[1].failure
    THEN Raise(A, "AttributeError")
    ELSE LET result == IF A[a].paused_result = None THEN Value("None")
                       ELSE A[a].paused_result[1]
             A1 == DeliverToWrap(A, a, result)
         IN  Ok([A1 EXCEPT ![a].current_d = FALSE, ![a].paused_result = None])

\* Actor.resume; ResumeChildren is its loop, from child i of a on
RECURSIVE resume(_, _), ResumeChildren(_, _, _)
\* mutant of resume: a stopped actor is resumed like a paused one
resumeStopped(A, a) ==
    IF A[a].state = RUNNING THEN Raise(A, "ActorAlreadyRunning")
    ELSE LET r == Unstash([A EXCEPT ![a].state = RUNNING], a)
         IN  IF r.exc # "" THEN r ELSE ResumeChildren(r.A, a, 1)

resume(A, a) ==
    IF A[a].state = RUNNING THEN Raise(A, "ActorAlreadyRunning")
    ELSE IF A[a].state = STOPPED THEN Raise(A, "ActorAlreadyStopped")
    ELSE LET r == Unstash([A EXCEPT ![a].state = RUNNING], a)
         IN  IF r.exc # "" THEN r ELSE ResumeChildren(r.A, a, 1)

ResumeChildren(A, a, i) ==
    IF i > Len(A[a].children) THEN Ok(A)
    ELSE LET child == A[a].children[i]
         IN  IF A[child].state # PAUSED THEN Raise(A, "AssertionError")
             ELSE LET r == resume(A, child)
                  IN  IF r.exc # "" THEN r ELSE ResumeChildren(r.A, a, i + 1)

\* stop, lines 280-286: cancel the Deferred the generator waits for.  A
\* pending one fails with CancelledError, which _fire_current_d stashes
\* (the actor is not RUNNING here); a fired one is left alone.  The stash
\* is cleared if it holds a CancelledError; otherwise the assert or the
\* attribute lookup raises, and the except clause passes.
CancelOnHold(A, a) ==
    LET A1 == IF A[a].on_hold_d = "pending"
              THEN _fire_current_d([A EXCEPT ![a].on_hold_d = "fired"], a,
                                   Failure("CancelledError"))
              ELSE A
    IN  IF A[a].on_hold_d = "none" THEN A
        ELSE IF A1[a].paused_result = Some(Failure("CancelledError"))
        THEN [A1 EXCEPT ![a].paused_result = None]
        ELSE A1

\* stop, lines 288-299: throw ActorStopped into the generator
ThrowStopped(A, a) ==
    IF A[a].gen = "none" \/ A[a].gen = "closed" THEN Ok(A)
    ELSE IF A[a].kind = "waits" THEN Ok([A EXCEPT ![a].gen = "closed"])
    ELSE IF A[a].kind = "returns"
    THEN IF A[a].d = "pending"
         THEN Ok(FireD([A EXCEPT ![a].gen = "closed"], a, Value("ret")))
         ELSE Raise([A EXCEPT ![a].gen = "closed"], "AlreadyCalledError")
    ELSE Raise(A, "ActorRefusedToStop")

\* stop, lines 308-311
StopTail(A, a) ==
    LET A1 == [A EXCEPT ![a].state = STOPPED]
    IN  IF A1[a].parent # NoParent
        THEN send(A1, A1[a].parent, Exit(a, "ActorStopped"))
        ELSE A1

\* Actor.stop; StopChildren is its loop, from child i of a on (a child
\* that leaves the list while the loop runs moves the ones behind it up)
RECURSIVE stop(_, _), StopChildren(_, _, _)
stop(A, a) ==
    IF A[a].state = NOT_STARTED THEN Raise(A, "Exception")
    ELSE IF A[a].state = STOPPED THEN Raise(A, "ActorAlreadyStopped")
    ELSE LET r1 == IF A[a].state = RUNNING THEN pause(A, a) ELSE Ok(A)
             r2 == ThrowStopped(CancelOnHold(r1.A, a), a)
             r3 == StopChildren(r2.A, a, 1)
         IN  IF r2.exc # "" THEN r2
             ELSE IF r3.exc # "" THEN r3
             ELSE Ok(StopTail(r3.A, a))

StopChildren(A, a, i) ==
    IF i > Len(A[a].children) THEN Ok(A)
    ELSE LET r == stop(A, A[a].children[i])
         IN  IF r.exc # "" THEN r ELSE StopChildren(r.A, a, i + 1)

\* __init__: a new Actor whose run is of the given kind
Actor(kind) == [NoActor EXCEPT !.kind = kind]

\* start, after resume: maybeDeferred(self._fn) calls run.  A function has
\* run to its end when start returns, so d has fired; a generator is left
\* at its yield, waiting for the Deferred it yielded.
Run(A, a) ==
    LET A1 == [A EXCEPT ![a].runs = @ + 1, ![a].d = "pending"]
    IN  IF A[a].kind = "plain" THEN FireD(A1, a, Value("None"))
        ELSE IF A[a].kind = "raises" THEN FireD(A1, a, Failure("MockException"))
        ELSE [A1 EXCEPT ![a].gen = "suspended", ![a].wrap = "waiting",
                        ![a].on_hold_d = "pending"]

\* Actor.start
start(A, a) ==
    LET r == resume(A, a)
    IN  IF r.exc # "" THEN r ELSE Ok(Run(r.A, a))

\* Actor._spawn_child: child, the number the new Actor goes by, is the
\* next one
_spawn_child(A, a, child, kind) ==
    LET A1 == Append(A, [Actor(kind) EXCEPT !.parent = a])
        r == start(A1, child)
        A2 == [r.A EXCEPT ![a].children = Append(@, child)]
    IN  IF r.exc # "" THEN r
        ELSE IF A2[child].d = "fired"
        THEN Ok([A2 EXCEPT ![a].children = Remove(@, child)])
        ELSE Ok([A2 EXCEPT ![child].spawned = TRUE])

\* ------------------------------------------------------------------ state
\* The fixture: MockNetwork(clock), node("A") and node("B") made at time 0
\* (each Hub's two LoopingCalls have run once, on an empty peer table), and
\* an actor registered under "/actor" on each Hub (Hub.register).
Fixture ==
    /\ now = 0
    /\ connections = [h \in Hubs |-> <<>>]
    /\ registry = [h \in Hubs |-> RegPaths]
    /\ messages = [h \in Hubs |-> [p \in Paths |-> <<>>]]
    /\ events = <<>>
    /\ net_connections = {}
    /\ packet_loss = [l \in Addrs \X Addrs |-> 0]
    /\ queue = <<>>
    /\ deliverable = <<>>
    /\ calls = <<>>
    /\ sim = [pc |-> "idle", time_left |-> 0, step |-> 0,
              duration |-> 0, t0 |-> 0, transmits |-> 0]
    /\ raised = ""
    /\ requests = <<>>
    /\ got = <<>>
    /\ heard = [h \in Hubs |-> <<>>]
    /\ actors = <<>>

\* no call of a function of its arguments alone is looked at
NoCall == [fn |-> "none"]

Init == Fixture /\ call = NoCall

Idle == sim.pc = "idle"

\* simulate is left: what the call kept of its argument, of the time it
\* began and of its transmit calls goes with it
SimulateLeft(s) == [s EXCEPT !.pc = "idle", !.duration = 0, !.t0 = 0, !.transmits = 0]

Commit(W) ==
    /\ connections' = W.connections
    /\ net_connections' = W.net_connections
    /\ queue' = W.queue
    /\ events' = W.events
    /\ messages' = W.messages
    /\ raised' = W.raised

\* history: what the send_message call that led to W did with its message
Fate(W) ==
    IF Len(W.events) > Len(events) THEN "deadletter"
    ELSE IF \E i \in (Len(queue) + 1)..Len(W.queue) : W.queue[i].msg.kind = PICKLE
         THEN "transmitted"
         ELSE "queued"

\* Hub.send_message(path, node, msg); the payload is the number of the call
SendMessage(h, path, node) ==
    /\ Idle
    /\ Len(requests) < MaxSends
    /\ LET W == send_message(World, h, path, node, Len(requests) + 1, now)
       IN  /\ Commit(W)
           /\ requests' = Append(requests, [hub |-> h, path |-> path, node |-> node,
                                            fate |-> Fate(W)])
    /\ UNCHANGED <<now, registry, packet_loss, deliverable, calls, sim, got, heard>>
    /\ UNCHANGED <<actorVars, call>>

\* MockNetwork.packet_loss(percent, src, dst), called while the fixture is
\* set up, once per link at most
PacketLoss(percent, src, dst) ==
    /\ Idle
    /\ now = 0 /\ requests = <<>>
    /\ packet_loss[<<src, dst>>] = 0 /\ percent > 0
    /\ packet_loss' = [packet_loss EXCEPT ![<<src, dst>>] = percent]
    /\ UNCHANGED <<now, connections, registry, messages, events, net_connections,
                   queue, deliverable, calls, sim, raised, requests, got, heard>>
    /\ UNCHANGED <<actorVars, call>>

\* MockNetwork.simulate(duration, step) is called
Simulate(duration, step, horizon) ==
    /\ Idle
    /\ now + duration + step <= horizon
    /\ sim' = [pc |-> "transmit", time_left |-> duration, step |-> step,
               duration |-> duration, t0 |-> now, transmits |-> 0]
    /\ UNCHANGED <<now, connections, registry, messages, events, net_connections,
                   packet_loss, queue, deliverable, calls, raised, requests, got,
                   heard>>
    /\ UNCHANGED <<actorVars, call>>

\* simulate calls transmit: MockNetwork.transmit up to the loop that calls
\* gotMessage; on an empty queue it returns at once
Transmit ==
    /\ sim.pc = "transmit"
    /\ \E lost \in SUBSET {i \in 1..Len(queue) : CanLose(queue[i])} :
          /\ \A i \in 1..Len(queue) : MustLose(queue[i]) => i \in lost
          /\ deliverable' = Deliverable(queue, 1, lost)
    /\ queue' = <<>>
    /\ sim' = [sim EXCEPT !.pc = "deliver", !.transmits = @ + 1]
    /\ UNCHANGED <<now, connections, registry, messages, events, net_connections,
                   packet_loss, calls, raised, requests, got, heard>>
    /\ UNCHANGED <<actorVars, call>>

\* transmit's sock.gotMessage(src, msg) for the next deliverable frame; a
\* failed assertion leaves transmit and simulate, and the frames behind it
\* are dropped
GotMessage ==
    /\ sim.pc = "deliver"
    /\ deliverable # <<>>
    /\ LET f == Head(deliverable)
           W == got_message(World, f.sock, f.src, f.msg, now)
       IN  /\ Commit(W)
           /\ deliverable' = IF W.raised # raised THEN <<>> ELSE Tail(deliverable)
           /\ sim' = IF W.raised # raised THEN SimulateLeft(sim) ELSE sim
           /\ got' = IF f.msg.kind = PICKLE
                     THEN Append(got, [hub |-> f.sock, src |-> f.src,
                                       path |-> loads(f.msg)[1], msg |-> loads(f.msg)[2]])
                     ELSE got
           /\ heard' = IF W.raised # raised THEN heard
                       ELSE [heard EXCEPT ![f.sock] = (f.src :> f.msg.kind) @@ @]
    /\ UNCHANGED <<now, registry, packet_loss, calls, requests>>
    /\ UNCHANGED <<actorVars, call>>

\* the calls Clock.advance finds due: every LoopingCall once, in the order
\* the Hubs were made and, per Hub, in the order __init__ started them
DueCalls == <<<<"send_heartbeat", "A">>, <<"clean_queue", "A">>,
              <<"send_heartbeat", "B">>, <<"clean_queue", "B">>>>

\* simulate calls self.clock.advance(step)
Advance ==
    /\ sim.pc = "deliver"
    /\ deliverable = <<>>
    /\ now' = now + sim.step
    /\ calls' = DueCalls
    /\ sim' = [sim EXCEPT !.pc = "advance"]
    /\ UNCHANGED <<connections, registry, messages, events, net_connections,
                   packet_loss, queue, deliverable, raised, requests, got, heard>>
    /\ UNCHANGED <<actorVars, call>>

\* the LoopingCall of Hub.send_heartbeat fires
SendHeartbeat(h) ==
    /\ calls # <<>>
    /\ Head(calls) = <<"send_heartbeat", h>>
    /\ \E order \in Orders(DOMAIN connections[h]) :
          Commit(send_heartbeat(World, h, order, now))
    /\ calls' = Tail(calls)
    /\ UNCHANGED <<now, registry, packet_loss, deliverable, sim, requests, got, heard>>
    /\ UNCHANGED <<actorVars, call>>

\* the LoopingCall of Hub.clean_queue fires
CleanQueue(h) ==
    /\ calls # <<>>
    /\ Head(calls) = <<"clean_queue", h>>
    /\ \E order \in Orders(DOMAIN connections[h]) :
          Commit(clean_queue(World, h, order, now))
    /\ calls' = Tail(calls)
    /\ UNCHANGED <<now, registry, packet_loss, deliverable, sim, requests, got, heard>>
    /\ UNCHANGED <<actorVars, call>>

\* simulate's loop test, after advance has returned
LoopTest ==
    /\ sim.pc = "advance"
    /\ calls = <<>>
    /\ sim' = IF sim.time_left <= 0
              THEN SimulateLeft(sim)
              ELSE [sim EXCEPT !.pc = "transmit", !.time_left = @ - sim.step]
    /\ UNCHANGED <<now, connections, registry, messages, events, net_connections,
                   packet_loss, queue, deliverable, calls, raised, requests, got,
                   heard>>
    /\ UNCHANGED <<actorVars, call>>

\* a test puts bytes that are no pickle on the wire, as src's out-socket
\* would: MockNetwork.enqueue(src, (dst, bytes)).  One such frame per run.
Enqueue(src, dst) ==
    /\ Idle
    /\ raised = ""
    /\ \A i \in 1..Len(queue) : queue[i].msg # Malformed
    /\ <<src, dst>> \in net_connections
    /\ Commit(enqueue(World, src, dst, Malformed))
    /\ UNCHANGED <<now, registry, packet_loss, deliverable, calls, sim, requests,
                   got, heard>>
    /\ UNCHANGED <<actorVars, call>>

\* the transport hands Hub h a frame that did not come over the mock
\* network, from an address the Hub has not met: incoming.gotMessage(src,
\* data), which is Hub.got_message.  No frame is handed over after an
\* assertion has failed.
StrayFrame(h, src, data) ==
    /\ Idle
    /\ raised = ""
    /\ src \notin DOMAIN connections[h]
    /\ LET W == got_message(World, h, src, data, now)
       IN  /\ Commit(W)
           /\ got' = IF data.kind = PICKLE
                     THEN Append(got, [hub |-> h, src |-> src,
                                       path |-> loads(data)[1], msg |-> loads(data)[2]])
                     ELSE got
           /\ heard' = IF W.raised # "" THEN heard
                       ELSE [heard EXCEPT ![h] = (src :> data.kind) @@ @]
    /\ UNCHANGED <<now, registry, packet_loss, deliverable, calls, sim, requests>>
    /\ UNCHANGED <<actorVars, call>>

\* the steps of a running simulate call
Simulating ==
    \/ Transmit
    \/ GotMessage
    \/ Advance
    \/ \E h \in Hubs : SendHeartbeat(h)
    \/ \E h \in Hubs : CleanQueue(h)
    \/ LoopTest

\* ---------------------------------------------------------- specifications
\* a loss strictly between 0 and 100 percent: any frame may be lost or not
SomeLoss == 50

\* Spec: second by second (simulate(0, 1) is one transmit and one tick), both
\* Hubs sending, any frame between them may be lost
Routes == {<<"A", "/actor", "B">>, <<"A", "/nope", "B">>, <<"B", "/actor", "A">>}
Links == {<<"A", "B">>, <<"B", "A">>}

Next ==
    \/ \E l \in Links : PacketLoss(SomeLoss, l[1], l[2])
    \/ \E r \in Routes : SendMessage(r[1], r[2], r[3])
    \/ Simulate(0, tick_interval, MaxTime)
    \/ Simulating

Spec == Init /\ [][Next]_vars

\* SpecLong: the long silences.  Hub A sends to B and to X, where nobody
\* listens; frames from B to A may be lost; the clock moves in steps of
\* max_silence_between_heartbeats or of just over time_to_keep_hope
\* (Clock.advance fires a LoopingCall once however long the step).
LongRoutes == {<<"A", "/actor", "B">>, <<"A", "/actor", "X">>}
LongSteps == {max_silence_between_heartbeats, time_to_keep_hope + tick_interval}

\* short steps are taken from the start and after each long step, up to
\* ShortRun seconds of them
ShortRun == 3 * max_silence_between_heartbeats
LongSimulate(step) ==
    /\ step = max_silence_between_heartbeats
          => (now % (time_to_keep_hope + tick_interval)) + step <= ShortRun
    /\ Simulate(0, step, MaxTimeLong)

NextLong ==
    \/ PacketLoss(SomeLoss, "B", "A")
    \/ \E r \in LongRoutes : SendMessage(r[1], r[2], r[3])
    \/ \E step \in LongSteps : LongSimulate(step)
    \/ Simulating

SpecLong == Init /\ [][NextLong]_vars

\* SpecLive: no packet loss, and simulate keeps being called and runs to
\* its end
LiveRoutes == {<<"A", "/actor", "B">>, <<"B", "/actor", "A">>}

NextLive ==
    \/ \E r \in LiveRoutes : SendMessage(r[1], r[2], r[3])
    \/ \E duration \in {0, tick_interval} :
          Simulate(duration, tick_interval, MaxTime)
    \/ Simulating

\* SpecWire: SpecLive's calls without its fairness, and a malformed frame
\* on the wire between the Hubs
NextWire ==
    \/ \E r \in LiveRoutes : SendMessage(r[1], r[2], r[3])
    \/ \E l \in Links : Enqueue(l[1], l[2])
    \/ Simulate(0, tick_interval, MaxTime)
    \/ Simulating

SpecWire == Init /\ [][NextWire]_vars

\* SpecStray: frames reach the Hubs from X, a node they have not met: a
\* heartbeat, or a payload for a path that is registered or is not
StrayPayload == 0
StrayFrames == {Signal(PING), Signal(PONG)}
                  \cup {dumps(path, StrayPayload, 2) : path \in Paths}

NextStray ==
    \/ \E r \in LiveRoutes : SendMessage(r[1], r[2], r[3])
    \/ \E h \in Hubs, data \in StrayFrames : StrayFrame(h, "X", data)
    \/ Simulate(0, tick_interval, MaxTime)
    \/ Simulating

SpecStray == Init /\ [][NextStray]_vars

SpecLive ==
    /\ Init
    /\ [][NextLive]_vars
    /\ WF_vars(Simulate(0, tick_interval, MaxTime))
    /\ WF_vars(Simulating)

\* ------------------------------------------------------- Actor: the calls
hubVars == <<now, connections, registry, messages, events, net_connections,
             packet_loss, queue, deliverable, calls, sim, raised, requests,
             got, heard>>

Made == DOMAIN actors

\* a run is followed up to the point where a coroutine is begun again
Restarted == \E a \in Made : actors[a].runs > 1

\* a call with outcome r has been made; what it raised goes to the caller
Called(r) ==
    /\ actors' = r.A
    /\ UNCHANGED <<hubVars, call>>

\* Actor(...), of a class whose run is of the given kind
New(kind) ==
    /\ Made = {}
    /\ Called(Ok(<<Actor(kind)>>))

\* a.spawn(cls): the child gets the next number
Spawn(a, kind, limit) ==
    /\ ~Restarted
    /\ a \in Made
    /\ Cardinality(Made) < limit
    /\ Called(_spawn_child(actors, a, Cardinality(Made) + 1, kind))

Start(a) == ~Restarted /\ a \in Made /\ Called(start(actors, a))
Pause(a) == ~Restarted /\ a \in Made /\ Called(pause(actors, a))
Resume(a) == ~Restarted /\ a \in Made /\ Called(resume(actors, a))
Stop(a) == ~Restarted /\ a \in Made /\ Called(stop(actors, a))

\* the Deferred a's generator waits for gets a result
Results == {Value("v"), Failure("MockException")}
Fire(a, result) ==
    /\ ~Restarted
    /\ a \in Made
    /\ actors[a].on_hold_d = "pending"
    /\ Called(Ok(_fire_current_d([actors EXCEPT ![a].on_hold_d = "fired"], a, result)))

\* the mailbox: what the tests send, the patterns they ask for
Letters == {Msg("m1"), Msg("m2")}
Patterns == {NoFilter, MATCH({Msg("m1")}), MATCH(Letters)}

Send(a, message) ==
    /\ a \in Made
    /\ Len(actors[a].inbox) + Len(actors[a].got_d) < MaxInbox
    /\ Called(Ok(send(actors, a, message)))

Get(a, filter) == a \in Made /\ Called(get(actors, a, filter))

Cancel(a) ==
    /\ a \in Made
    /\ actors[a].waiting # None
    /\ Called(Ok(cancel_get(actors, a)))

NextActor ==
    \/ \E kind \in Kinds : New(kind)
    \/ \E a \in ActorIds, kind \in Kinds : Spawn(a, kind, MaxActors)
    \/ \E a \in ActorIds : Start(a)
    \/ \E a \in ActorIds : Pause(a)
    \/ \E a \in ActorIds : Resume(a)
    \/ \E a \in ActorIds : Stop(a)
    \/ \E a \in ActorIds, result \in Results : Fire(a, result)

SpecActor == Init /\ [][NextActor]_vars

\* SpecFamily: one Actor more
NextFamily ==
    \/ \E kind \in Kinds : New(kind)
    \/ \E a \in ActorIds, kind \in Kinds : Spawn(a, kind, MaxActors + 1)
    \/ \E a \in ActorIds : Start(a)
    \/ \E a \in ActorIds : Pause(a)
    \/ \E a \in ActorIds : Resume(a)
    \/ \E a \in ActorIds : Stop(a)
    \/ \E a \in ActorIds, result \in Results : Fire(a, result)

SpecFamily == Init /\ [][NextFamily]_vars

\* SpecMailbox: an Actor and its children, which are stopped or not;
\* messages are sent to the Actor and asked for
NextMailbox ==
    \/ New("plain")
    \/ Spawn(1, "waits", MaxActors)
    \/ \E c \in ActorIds \ {1} : Stop(c)
    \/ \E m \in Letters : Send(1, m)
    \/ \E f \in Patterns : Get(1, f)
    \/ Cancel(1)

SpecMailbox == Init /\ [][NextMailbox]_vars

\* ------------------------------------------------------------------ claims
PeersOf(h) == DOMAIN connections[h]
Frame(src, dst, msg) == [src |-> src, dst |-> dst, msg |-> msg]
\* the frames the step appended to the network queue
Emitted == SubSeq(queue', Len(queue) + 1, Len(queue'))
OnlyAppends == Len(queue') >= Len(queue) /\ SubSeq(queue', 1, Len(queue)) = queue

Count(seq, x) == Cardinality({k \in 1..Len(seq) : seq[k] = x})

\* payload i is in the mailbox of B's actor exactly once, and A and B are
\* visible to each other
C1_Reached(i) ==
    /\ Count(messages["B"]["/actor"], i) = 1
    /\ "B" \in PeersOf("A") /\ connections["A"]["B"].state = "visible"
    /\ "A" \in PeersOf("B") /\ connections["B"]["A"].state = "visible"

\* the handshake and the flush take three transmits, one per second
C1_Sent(i) ==
    /\ i <= Len(requests)
    /\ requests[i].hub = "A" /\ requests[i].node = "B" /\ requests[i].path = "/actor"
    /\ now + 3 * tick_interval <= MaxTime

\* C1: without packet loss, once A has been asked to send m to the actor
\* registered on B and the network is simulated, a state is reached in which
\* B's actor has m exactly once and A and B are visible to each other.
C1_RoundTrip == \A i \in 1..MaxSends : C1_Sent(i) ~> C1_Reached(i)

\* the first message has made the round
C1_Witness == C1_Reached(1) /\ requests[1].fate = "queued"

\* C2: when got_message takes a known peer from a non-visible state to
\* visible, it sends every queued message to that peer as an encoded
\* (path, msg) frame, in the order of the queue, and leaves nothing pending.
C2_FlushInOrder ==
    [][GotMessage =>
        LET h == Head(deliverable).sock
            p == Head(deliverable).src
            q == Pending(connections[h][p].queue)
        IN  (p \in PeersOf(h) /\ connections[h][p].state # "visible"
                /\ connections'[h][p].state = "visible")
            => /\ OnlyAppends
               /\ Len(Emitted) = Len(q)
               /\ \A i \in 1..Len(q) :
                     /\ Emitted[i].src = h /\ Emitted[i].dst = p
                     /\ Emitted[i].msg.kind = PICKLE
                     /\ loads(Emitted[i].msg) = <<q[i][1][1], q[i][1][3]>>
               /\ Pending(connections'[h][p].queue) = <<>>]_vars

\* two queued messages have just been flushed, one behind the other
C2_Witness ==
    \E i \in 1..Len(queue) :
        /\ i + 1 <= Len(queue)
        /\ queue[i].msg.kind = PICKLE /\ queue[i].msg.proto = 2 /\ queue[i].msg.msg = 1
        /\ queue[i + 1].msg.kind = PICKLE /\ queue[i + 1].msg.proto = 2
        /\ queue[i + 1].msg.msg = 2

\* the payloads Hub h handled from sender s, in the order it handled them
RECURSIVE PayloadsFrom(_, _, _)
PayloadsFrom(log, h, s) ==
    IF log = <<>> THEN <<>>
    ELSE IF Head(log).hub = h /\ Head(log).src = s
         THEN <<Head(log)>> \o PayloadsFrom(Tail(log), h, s)
         ELSE PayloadsFrom(Tail(log), h, s)

\* C3: the payloads a Hub receives from a peer are a subsequence, in order
\* and without duplicates, of the payloads that peer was asked to send to it
\* (payloads are numbered in the order of the send_message calls).
C3_OrderedNoDuplicates ==
    \A h \in Hubs, s \in Hubs :
        LET r == PayloadsFrom(got, h, s)
        IN  /\ \A i \in 1..Len(r) :
                  /\ r[i].msg \in 1..Len(requests)
                  /\ requests[r[i].msg].hub = s
                  /\ requests[r[i].msg].node = h
                  /\ requests[r[i].msg].path = r[i].path
            /\ \A i, j \in 1..Len(r) : i < j => r[i].msg < r[j].msg

\* B has handled two payloads of A: the first had been queued, the second
\* was sent while B was visible to A
C3_Witness ==
    /\ Len(PayloadsFrom(got, "B", "A")) = 2
    /\ requests[1].fate = "queued"
    /\ requests[2].fate = "transmitted"

\* C4: a visible peer has nothing pending in its queue.
C4_VisibleQueueEmpty ==
    \A h \in Hubs : \A p \in PeersOf(h) :
        connections[h][p].state = "visible" => Pending(connections[h][p].queue) = <<>>

\* A's peer B is visible after a message of A was queued and has reached B
C4_Witness ==
    /\ "B" \in PeersOf("A")
    /\ connections["A"]["B"].state = "visible"
    /\ Len(PayloadsFrom(got, "B", "A")) >= 1

\* the send_message call of this step finds the peer known with queue None
SendsToAbandoned(r) ==
    /\ SendMessage(r[1], r[2], r[3])
    /\ r[3] \in PeersOf(r[1])
    /\ IsNone(connections[r[1]][r[3]].queue)

\* the call emits one DeadLetter for its message and transmits nothing
DeadLettersIt(r) ==
    /\ events' = Append(events, DeadLetter(Ref("None", r[2], r[3]), Len(requests) + 1))
    /\ queue' = queue
    /\ connections' = connections

\* C5 as stated: a send to a peer whose queue is None emits a DeadLetter
\* and transmits nothing, whatever the peer's state.
C5_AnyState ==
    [][\A r \in LongRoutes : SendsToAbandoned(r) => DeadLettersIt(r)]_vars

\* C5: a send to a peer whose queue is None and whose state is not visible
\* emits one DeadLetter for the message and transmits nothing; when the
\* state is visible the message is transmitted and no DeadLetter is emitted.
C5_AbandonedQueue ==
    [][\A r \in LongRoutes : SendsToAbandoned(r) =>
          IF connections[r[1]][r[3]].state # "visible"
          THEN DeadLettersIt(r)
          ELSE /\ events' = events
               /\ queue' = Append(queue, Frame(r[1], r[3],
                                    dumps(r[2], Len(requests) + 1, 0)))
               /\ connections' = connections]_vars

\* A's second message went to dead-letter: its peer's queue is None
C5_Witness ==
    /\ Len(requests) = 2
    /\ requests[2].fate = "deadletter"
    /\ IsNone(connections["A"][requests[2].node].queue)
    /\ connections["A"][requests[2].node].state # "visible"

\* the send_message call of this step goes to a peer whose last handled
\* frame was a PONG or a payload
SendsAfterAnswer(r) ==
    /\ SendMessage(r[1], r[2], r[3])
    /\ r[3] \in DOMAIN heard[r[1]]
    /\ heard[r[1]][r[3]] \in {PONG, PICKLE}

\* the call puts the encoded payload on the transport and queues nothing
TransmitsIt(r) ==
    /\ queue' = Append(queue, Frame(r[1], r[3], dumps(r[2], Len(requests) + 1, 0)))
    /\ connections' = connections
    /\ events' = events

\* C6 as stated: once a PONG or payload from a known peer has been handled,
\* the next send_message to that peer is transmitted within the call and
\* not queued, however much later it comes.
C6_AnyTimeLater ==
    [][\A r \in Routes : SendsAfterAnswer(r) => TransmitsIt(r)]_vars

\* C6: when the last frame handled from a peer was a PONG or a payload and
\* it was handled no more than max_silence_between_heartbeats seconds ago,
\* send_message to that peer transmits the encoded payload within the call
\* and appends nothing to the peer's queue.
C6_SendAfterAnswer ==
    [][\A r \in Routes :
          (/\ SendsAfterAnswer(r)
           /\ connections[r[1]][r[3]].last_seen >= now - max_silence_between_heartbeats)
          => TransmitsIt(r)]_vars

\* a payload of a direct send to a peer that has answered is on the wire
C6_Witness ==
    \E i \in 1..Len(queue) :
        /\ queue[i].msg.kind = PICKLE /\ queue[i].msg.proto = 0
        /\ queue[i].dst \in DOMAIN heard[queue[i].src]
        /\ heard[queue[i].src][queue[i].dst] \in {PONG, PICKLE}

\* the peers of Hub h from which no frame has ever been handled
SilentPeers(h) == PeersOf(h) \ DOMAIN heard[h]

\* the time of the send that made the never-answering peer p of Hub h
CreatedAt(h, p) == connections[h][p].last_seen + max_silence_between_heartbeats

\* C7: a peer made by a send at t0 that never delivers a frame is in
\* radiosilence after every heartbeat tick at a time <= t0 + time_to_keep_hope
\* and in silentlyhoping after every later one, and is never visible or
\* reverse-radiosilence.
C7_SilentPeer ==
    [][/\ \A h \in Hubs : SendHeartbeat(h) =>
             \A p \in SilentPeers(h) :
                 connections'[h][p].state =
                     IF now > CreatedAt(h, p) + time_to_keep_hope
                     THEN "silentlyhoping" ELSE "radiosilence"
       /\ \A h \in Hubs : \A p \in SilentPeers(h)' :
             connections'[h][p].state \in {"radiosilence", "silentlyhoping"}]_vars

\* the items of q enqueued at or after time t, in their order
RECURSIVE NotOlderThan(_, _)
NotOlderThan(q, t) ==
    IF q = <<>> THEN <<>>
    ELSE IF Head(q)[2] >= t THEN <<Head(q)>> \o NotOlderThan(Tail(q), t)
         ELSE NotOlderThan(Tail(q), t)

\* C8: after a clean_queue tick at time now no queue holds an item enqueued
\* before now - queue_item_lifetime; every removed item has become exactly
\* one DeadLetter; the items enqueued at or after now - queue_item_lifetime
\* are kept in order; no peer's state or last_seen changes; and an item
\* removed from the queue of a peer that never answered leaves that peer in
\* radiosilence.
C8_CleanupTick ==
    [][\A h \in Hubs : CleanQueue(h) =>
        LET keep_until == now - queue_item_lifetime
            removed == {<<p, i>> \in PeersOf(h) \X (1..MaxSends + 1) :
                            /\ i <= Len(Pending(connections[h][p].queue))
                            /\ Pending(connections[h][p].queue)[i][2] < keep_until}
            item(r) == Pending(connections[h][r[1]].queue)[r[2]][1]
            letter(r) == DeadLetter(Ref("None", item(r)[1], item(r)[2]), item(r)[3])
        IN  /\ DOMAIN connections' = DOMAIN connections
            /\ \A g \in Hubs \ {h} : connections'[g] = connections[g]
            /\ DOMAIN connections'[h] = PeersOf(h)
            /\ \A p \in PeersOf(h) :
                  /\ connections'[h][p].state = connections[h][p].state
                  /\ connections'[h][p].last_seen = connections[h][p].last_seen
                  /\ IsNone(connections'[h][p].queue) = IsNone(connections[h][p].queue)
                  /\ Pending(connections'[h][p].queue)
                        = NotOlderThan(Pending(connections[h][p].queue), keep_until)
                  /\ \A i \in 1..Len(Pending(connections'[h][p].queue)) :
                        Pending(connections'[h][p].queue)[i][2] >= keep_until
            /\ Len(events') = Len(events) + Cardinality(removed)
            /\ SubSeq(events', 1, Len(events)) = events
            /\ \A r \in removed :
                  /\ Cardinality({k \in (Len(events) + 1)..Len(events') :
                                    events'[k] = letter(r)}) = 1
                  /\ r[1] \notin DOMAIN heard[h]
                        => connections'[h][r[1]].state = "radiosilence"
            /\ queue' = queue /\ messages' = messages]_vars

\* a tick has dead-lettered A's first message for X and kept the second;
\* X is still in radiosilence
C8_Witness ==
    /\ "X" \in PeersOf("A")
    /\ connections["A"]["X"].state = "radiosilence"
    /\ Len(Pending(connections["A"]["X"].queue)) = 1
    /\ Pending(connections["A"]["X"].queue)[1][1][3] = 2
    /\ \E k \in 1..Len(events) :
          events[k] = DeadLetter(Ref("None", "/actor", "X"), 1)

\* C9: got_message gives a payload for a registered path to that actor and to
\* no other, with no DeadLetter; for another path it emits one
\* DeadLetter(Ref(None, path), msg) and changes no mailbox; PING and PONG
\* change no mailbox and emit no DeadLetter.
C9_PayloadRouting ==
    [][GotMessage =>
        LET h == Head(deliverable).sock
            data == Head(deliverable).msg
        IN  IF data.kind \in {PING, PONG}
            THEN messages' = messages /\ events' = events
            ELSE IF data.path \in registry[h]
            THEN /\ messages' = [messages EXCEPT ![h][data.path] = Append(@, data.msg)]
                 /\ events' = events
            ELSE /\ messages' = messages
                 /\ events' = Append(events,
                        DeadLetter(Ref("None", data.path, NoNode), data.msg))]_vars

\* B has given one payload to its actor and dead-lettered another
C9_Witness ==
    /\ messages["B"]["/actor"] # <<>>
    /\ \E i \in 1..Len(events) :
          events[i].ref.node = NoNode /\ events[i].ref.path = "/nope"

\* C10: the assertion that the first frame from an unknown sender is PING
\* never fails.
C10_FirstFrameIsPing == raised # "initial message should be PING"

\* B, which never sent a message, has made its connection to A on a frame
\* from A although frames from A to B can be lost
C10_Witness ==
    /\ "A" \in PeersOf("B")
    /\ \A i \in 1..Len(requests) : requests[i].hub # "B"
    /\ packet_loss[<<"A", "B">>] = SomeLoss
    /\ connections["B"]["A"].state = "visible"

\* the addresses Hub h has added a 'connect' endpoint for
Endpoints(h) == {a \in Addrs : <<h, a>> \in net_connections}

\* the endpoints are the keys of the peer table, none was added twice
EndpointPerPeer ==
    /\ \A h \in Hubs : Endpoints(h) = PeersOf(h)
    /\ raised \notin {"already connected", "not connected"}

\* C11: for every Hub the addresses with an outgoing 'connect' endpoint are
\* exactly the keys of its peer table, each added once (MockNetwork.connect
\* refuses a second add), and no step removes a key from the peer table.
C11_EndpointPerPeer ==
    /\ EndpointPerPeer
    /\ [][/\ EndpointPerPeer'
          /\ \A h \in Hubs : PeersOf(h) \subseteq PeersOf(h)']_vars

\* both ways of making a peer have happened: A by its send, B by A's PING
C11_Witness ==
    /\ Endpoints("A") = {"B"} /\ requests # <<>> /\ requests[1].hub = "A"
    /\ Endpoints("B") = {"A"} /\ heard["B"] # <<>>
    /\ connections["B"]["A"].state = "radiosilence"

\* C34: a PeerConn whose queue is None keeps its place in the peer table and
\* its queue stays None over every step: a frame from the peer, a send, a
\* heartbeat tick or a cleanup tick; and the queue of a PeerConn becomes None
\* only in a heartbeat tick that makes the peer silentlyhoping.
C34_QueueStaysNone ==
    [][\A h \in Hubs : \A p \in PeersOf(h) :
          /\ IsNone(connections[h][p].queue) =>
                /\ p \in DOMAIN connections'[h]
                /\ IsNone(connections'[h][p].queue)
          /\ ~IsNone(connections[h][p].queue) /\ IsNone(connections'[h][p].queue) =>
                /\ SendHeartbeat(h)
                /\ connections'[h][p].state = "silentlyhoping"]_vars

\* B was given up by A and has answered since: it is visible, a message
\* sent to it afterwards was transmitted, and its queue is still None
C34_Witness ==
    /\ "B" \in PeersOf("A")
    /\ IsNone(connections["A"]["B"].queue)
    /\ connections["A"]["B"].state = "visible"
    /\ Len(requests) = 2
    /\ requests[2].node = "B"
    /\ requests[2].fate = "transmitted"

\* C33: a PONG or a payload handed to got_message from an address that is
\* not in the peer table fails the protocol assertion and does nothing
\* else: no PeerConn and no endpoint is made, no frame is sent, no message
\* reaches a registered actor and no DeadLetter is emitted.
C33_StrangerRejected ==
    [][\A h \in Hubs : \A data \in StrayFrames :
          /\ StrayFrame(h, "X", data)
          /\ "X" \notin PeersOf(h)
          /\ data.kind # PING
          => /\ raised' = "initial message should be PING"
             /\ connections' = connections
             /\ net_connections' = net_connections
             /\ queue' = queue
             /\ messages' = messages
             /\ events' = events]_vars

\* message i, the one of the i-th send_message call: how often it is in the
\* queue of its peer, how many DeadLetters its Hub has emitted for it, and
\* how often this step hands it to the outgoing transport
Queued(i) ==
    LET r == requests[i]
        q == IF r.node \in PeersOf(r.hub)
             THEN Pending(connections[r.hub][r.node].queue) ELSE <<>>
    IN  Cardinality({k \in 1..Len(q) : q[k][1] = <<r.path, r.node, i>>})
Dead(i) ==
    Count(events, DeadLetter(Ref("None", requests[i].path, requests[i].node), i))
Transmitted(i) ==
    LET r == requests'[i]
    IN  Cardinality({k \in 1..Len(Emitted) :
            /\ Emitted[k].src = r.hub /\ Emitted[k].dst = r.node
            /\ Emitted[k].msg.kind = PICKLE
            /\ loads(Emitted[k].msg) = <<r.path, i>>})

\* C32: every message passed to send_message is, at every moment, in its
\* peer's queue, or has been handed to the outgoing transport exactly once,
\* or has become exactly one DeadLetter, and only one of the three.  Step
\* by step: the call puts the message in exactly one of the three; later it
\* leaves the queue only into one transmission or one DeadLetter; and what
\* is not in a queue is never transmitted or dead-lettered again.
C32_Conservation ==
    /\ [](\A i \in 1..Len(requests) : Queued(i) + Dead(i) <= 1)
    /\ [][\A i \in 1..Len(requests') :
            IF i > Len(requests)
            THEN Queued(i)' + Dead(i)' + Transmitted(i) = 1
            ELSE /\ Queued(i)' + (Dead(i)' - Dead(i)) + Transmitted(i) = Queued(i)
                 /\ Dead(i)' >= Dead(i)]_vars

\* both messages were queued by their sends; the one for X has become a
\* DeadLetter and the one for B has left the queue for the transport
C32_Witness ==
    /\ Len(requests) = 2
    /\ requests[1].fate = "queued" /\ requests[2].fate = "queued"
    /\ {requests[1].node, requests[2].node} = {"B", "X"}
    /\ \E i, j \in 1..2 :
          /\ requests[i].node = "X" /\ Dead(i) = 1 /\ Queued(i) = 0
          /\ requests[j].node = "B" /\ Dead(j) = 0 /\ Queued(j) = 0

\* ------------------------------------------------------- claims on Actors
Children == {c \in Made : actors[c].parent # NoParent}

\* the ('exit', c, reason) messages in the mailbox of c's parent
Exits(c) ==
    LET inbox == actors[actors[c].parent].inbox
    IN  {k \in 1..Len(inbox) : inbox[k].tag = "exit" /\ inbox[k].who = c}

\* c's coroutine has ended (self.d has fired) or c has been stopped
Terminated(c) == actors[c].d = "fired" \/ actors[c].state = STOPPED

\* C12: the mailbox of a spawned child's parent holds at most one
\* ('exit', child, reason), and exactly one once the child has terminated,
\* whichever way it terminated.
C12_OneExit ==
    \A c \in Children :
        /\ Cardinality(Exits(c)) <= 1
        /\ Terminated(c) => Cardinality(Exits(c)) = 1

\* the actors in a's _children list
Listed(a) == {actors[a].children[k] : k \in 1..Len(actors[a].children)}

\* C13: a spawned child that has terminated (its run returned or raised, or
\* it was stopped) is not in its parent's children list.
C13_TerminatedNotListed ==
    \A c \in Children : Terminated(c) => c \notin Listed(actors[c].parent)

Stopped == {a \in Made : actors[a].state = STOPPED}

\* C14: STOPPED is final.  On a stopped actor start, resume and stop raise
\* ActorAlreadyStopped and pause raises ActorNotRunning, each leaving every
\* actor as it was; and no step of any call on any actor takes an actor out
\* of STOPPED.
C14_StoppedIsFinal ==
    /\ [](\A a \in Stopped :
              /\ start(actors, a) = Raise(actors, "ActorAlreadyStopped")
              /\ resume(actors, a) = Raise(actors, "ActorAlreadyStopped")
              /\ stop(actors, a) = Raise(actors, "ActorAlreadyStopped")
              /\ pause(actors, a) = Raise(actors, "ActorNotRunning"))
    /\ [][\A a \in Stopped : actors'[a].state = STOPPED]_vars

\* a stopped child, still listed by its parent, which is stopped as well
C14_Witness ==
    \E a \in Stopped :
        /\ actors[a].parent # NoParent
        /\ actors[a].parent \in Stopped
        /\ a \in Listed(actors[a].parent)

\* C15: start() on an actor that has been started (it is RUNNING, PAUSED or
\* STOPPED) raises, and run is never called a second time.
C15_StartOnce ==
    \A a \in Made :
        /\ actors[a].runs <= 1
        /\ actors[a].state # NOT_STARTED =>
              /\ start(actors, a).exc # ""
              /\ start(actors, a).A[a].runs = actors[a].runs

\* the paused actors whose generator is at its yield and that hold the
\* result of the Deferred it waits for
Stashed == {a \in Made : /\ actors[a].state = PAUSED
                         /\ actors[a].gen = "suspended"
                         /\ actors[a].current_d
                         /\ actors[a].paused_result # None}

\* C16: a result that arrives while the actor is PAUSED is not given to the
\* coroutine as long as the actor stays PAUSED; resume() gives it to the
\* coroutine once, a value as a value and a Failure as an error, and clears
\* the stash.
C16_StashedResult ==
    /\ [](\A a \in Stashed :
              LET result == actors[a].paused_result[1]
                  B == resume(actors, a).A
              IN  /\ B[a].paused_result = None
                  /\ ~B[a].current_d
                  /\ B[a].wrap = "done"
                  /\ ~result.failure =>
                         B[a].resumed = Append(actors[a].resumed, result)
                  /\ result.failure =>
                         B[a].resumed = actors[a].resumed /\ B[a].d = "fired")
    /\ [][\A a \in Made :
              actors[a].state = PAUSED /\ actors'[a].state = PAUSED =>
                  /\ actors'[a].resumed = actors[a].resumed
                  /\ actors'[a].wrap = actors[a].wrap]_vars

\* the actors in a's _children list, the Actors being A
ListedIn(A, a) == {A[a].children[k] : k \in 1..Len(A[a].children)}

\* C17: after a.pause() every child of a that was RUNNING is PAUSED; after
\* the a.resume() that follows, every actor in a's children list is RUNNING;
\* after a.stop(), unless an actor refused to stop, every actor in a's
\* children list is STOPPED: whatever was spawned, paused, resumed and
\* stopped before.
C17_ChildrenFollow ==
    \A a \in Made :
        /\ actors[a].state = RUNNING =>
              LET B == pause(actors, a).A
                  C == resume(B, a).A
              IN  /\ \A c \in Listed(a) :
                        actors[c].state = RUNNING => B[c].state = PAUSED
                  /\ \A c \in ListedIn(C, a) : C[c].state = RUNNING
        /\ actors[a].state \in {RUNNING, PAUSED} =>
              LET r == stop(actors, a)
              IN  r.exc # "ActorRefusedToStop" =>
                      \A c \in ListedIn(r.A, a) : r.A[c].state = STOPPED

\* the positions of the messages in a's mailbox that filter selects
Selected(a, filter) ==
    {k \in 1..Len(actors[a].inbox) :
        filter.none \/ match(filter, actors[a].inbox[k])[1]}

Earliest(S) == CHOOSE k \in S : \A j \in S : k <= j

Without(list, k) == SubSeq(list, 1, k - 1) \o SubSeq(list, k + 1, Len(list))

\* C18: when the mailbox holds a message the pattern selects, get(pattern)
\* returns the earliest such message and removes it and nothing else, the
\* rest keeping their order; so a second get with the same pattern returns
\* the next selected message, not the same one again.
C18_GetTakesEarliest ==
    \A a \in Made, filter \in Patterns :
        LET S == Selected(a, filter)
            inbox == actors[a].inbox
            r == get(actors, a, filter)
        IN  S # {} =>
              /\ r.exc = ""
              /\ r.ret = Some(inbox[Earliest(S)])
              /\ r.A[a].inbox = Without(inbox, Earliest(S))
              /\ Cardinality(S) > 1 =>
                    get(r.A, a, filter).ret =
                        Some(inbox[Earliest(S \ {Earliest(S)})])

\* the actors with a get pending on an empty mailbox
Waiting == {a \in Made : actors[a].waiting # None /\ actors[a].inbox = <<>>}

\* C19: while a get is pending on an empty mailbox, another get, with any
\* filter, raises QueueUnderflow and changes nothing: the first waiter stays
\* installed and its Deferred is not fired.  Cancelling the pending Deferred
\* removes the waiter without firing it, and the next get installs its own
\* waiter without an error.
C19_OneWaiter ==
    \A a \in Waiting, filter \in Patterns :
        LET B == cancel_get(actors, a)
        IN  /\ get(actors, a, filter) =
                  [A |-> actors, exc |-> "QueueUnderflow", ret |-> None]
            /\ B[a].waiting = None
            /\ B[a].got_d = actors[a].got_d
            /\ get(B, a, filter) =
                  [A |-> [actors EXCEPT ![a].waiting = Some(filter)],
                   exc |-> "", ret |-> None]

\* a get is pending after an earlier one was answered by send, the mailbox
\* is empty, and the child's exit message has been taken from it
C19_Witness ==
    \E a \in Waiting :
        /\ actors[a].waiting = Some(MATCH({Msg("m1")}))
        /\ \E k \in 1..Len(actors[a].got_d) : actors[a].got_d[k] = Msg("m2")
        /\ \E c \in Children : actors[c].state = STOPPED /\ Exits(c) = {}

\* a's run has returned by itself: self.d has fired with its return value,
\* not with a Failure and not with what it returned on ActorStopped
Returned(A, a) == A[a].result = Some(Value("None"))

\* C20: when an actor whose run returned normally becomes STOPPED, every
\* actor in its children list has terminated.
C20_StoppedAfterChildren ==
    [][\A a \in Made :
          /\ actors[a].state # STOPPED
          /\ actors'[a].state = STOPPED
          /\ Returned(actors', a)
          => \A c \in ListedIn(actors', a) :
                actors'[c].d = "fired" \/ actors'[c].state = STOPPED]_vars

\* the send_message call of this step goes to an address Hub r[1] has no
\* PeerConn for
SendsToUnknown(r) ==
    /\ SendMessage(r[1], r[2], r[3])
    /\ r[3] \notin PeersOf(r[1])

\* the send_message call of this step goes to a peer in radiosilence from
\* which no frame has been handled and whose queue is still kept
SendsToSilent(r) ==
    /\ SendMessage(r[1], r[2], r[3])
    /\ r[3] \in SilentPeers(r[1])
    /\ connections[r[1]][r[3]].state = "radiosilence"
    /\ ~IsNone(connections[r[1]][r[3]].queue)

\* the messages of the first n send_message calls that Hub h was given for
\* peer p, in the order of the calls
RECURSIVE SentTo(_, _, _)
SentTo(h, p, n) ==
    IF n = 0 THEN <<>>
    ELSE IF requests[n].hub = h /\ requests[n].node = p
         THEN Append(SentTo(h, p, n - 1), <<requests[n].path, p, n>>)
         ELSE SentTo(h, p, n - 1)

\* the messages of a PeerConn's queue without their timestamps
Items(q) == [i \in 1..Len(q) |-> q[i][1]]

\* C25: a send_message to an address with no PeerConn makes one in
\* radiosilence with last_seen = now - max_silence_between_heartbeats, adds
\* one endpoint, sends exactly one PING and no payload, and leaves the queue
\* holding just ((path, node, msg), now); a further send to the peer while no
\* frame from it has been handled appends at the tail, transmits nothing and
\* keeps radiosilence; and before the clock moves on the queue holds exactly
\* the messages sent to the peer, in order.
C25_FirstSend ==
    /\ [](\A h \in Hubs : \A p \in SilentPeers(h) :
            CreatedAt(h, p) = now =>
                /\ connections[h][p].state = "radiosilence"
                /\ Items(Pending(connections[h][p].queue))
                      = SentTo(h, p, Len(requests)))
    /\ [][\A r \in LongRoutes :
            LET h == r[1]
                p == r[3]
                item == <<<<r[2], p, Len(requests) + 1>>, now>>
            IN  /\ SendsToUnknown(r) =>
                      /\ connections'[h] = (p :> [state |-> "radiosilence",
                                last_seen |-> now - max_silence_between_heartbeats,
                                queue |-> Some(<<item>>)]) @@ connections[h]
                      /\ Endpoints(h)' = Endpoints(h) \cup {p}
                      /\ p \notin Endpoints(h)
                      /\ Emitted = <<Frame(h, p, Signal(PING))>>
                      /\ events' = events
                /\ SendsToSilent(r) =>
                      /\ connections'[h] = [connections[h] EXCEPT ![p].queue =
                                Some(Append(Pending(@), item))]
                      /\ Emitted = <<>>
                      /\ net_connections' = net_connections
                      /\ events' = events]_vars

\* A has sent two messages to X, which never answers: both wait in X's
\* queue behind the one PING, and X is in radiosilence
C25_Witness ==
    /\ Len(requests) = 2
    /\ "X" \in SilentPeers("A")
    /\ connections["A"]["X"].state = "radiosilence"
    /\ Len(Pending(connections["A"]["X"].queue)) = 2
    /\ CreatedAt("A", "X") = now

\* C26: a frame handled from an address the Hub has a PeerConn for sets that
\* PeerConn's last_seen to the current time and its state to
\* reverse-radiosilence for a PING and to visible for a PONG or a payload,
\* whatever the state was before, and no other PeerConn of any Hub changes.
C26_KnownSender ==
    [][GotMessage =>
        LET h == Head(deliverable).sock
            src == Head(deliverable).src
            data == Head(deliverable).msg
        IN  src \in PeersOf(h) =>
              /\ connections'[h][src].last_seen = now
              /\ connections'[h][src].state =
                    IF data.kind = PING THEN "reverse-radiosilence" ELSE "visible"
              /\ \A g \in Hubs : PeersOf(g)' = PeersOf(g)
              /\ \A g \in Hubs : \A p \in PeersOf(g) :
                    <<g, p>> # <<h, src>> => connections'[g][p] = connections[g][p]]_vars

\* a frame from B has just taken B's PeerConn at A out of silentlyhoping:
\* the queue was given up, and A knows another peer besides
C26_Witness ==
    /\ PeersOf("A") = {"B", "X"}
    /\ connections["A"]["B"].state \in {"visible", "reverse-radiosilence"}
    /\ IsNone(connections["A"]["B"].queue)
    /\ connections["A"]["B"].last_seen = now
    /\ sim.pc = "deliver"

\* C27: a PING handled from an address the Hub has no PeerConn for makes one
\* in reverse-radiosilence with last_seen = now and an empty queue, adds one
\* endpoint for the address, and sends exactly one frame to it, a PONG.
C27_UnknownPing ==
    [][GotMessage =>
        LET h == Head(deliverable).sock
            src == Head(deliverable).src
            data == Head(deliverable).msg
        IN  src \notin PeersOf(h) /\ data.kind = PING =>
              /\ connections'[h] = (src :> [state |-> "reverse-radiosilence",
                                            last_seen |-> now,
                                            queue |-> Some(<<>>)]) @@ connections[h]
              /\ \A g \in Hubs \ {h} : connections'[g] = connections[g]
              /\ src \notin Endpoints(h)
              /\ {a \in Addrs : <<h, a>> \in net_connections'}
                    = Endpoints(h) \cup {src}
              /\ Emitted = <<Frame(h, src, Signal(PONG))>>
              /\ raised' = raised]_vars

\* B, which knew nobody, has just handled A's first PING: its PeerConn for A
\* is new and the PONG is on its way
C27_Witness ==
    /\ now = 0
    /\ PeersOf("B") = {"A"}
    /\ connections["B"]["A"] = ConnectedNode("reverse-radiosilence", 0)
    /\ Endpoints("B") = {"A"}
    /\ queue = <<Frame("B", "A", Signal(PONG))>>

\* the frames of this step's heartbeat tick of Hub h that go to peer p
HeartbeatsTo(h, p) == SelectSeq(Emitted, LAMBDA f : f.src = h /\ f.dst = p)

\* C28: a heartbeat tick of a Hub sends exactly one heartbeat to every peer
\* in its table: a PING when the peer is silentlyhoping or its last_seen is
\* older than now - max_silence_between_heartbeats, a PONG otherwise; no
\* peer is skipped and the tick raises nothing.
C28_OneHeartbeatEach ==
    [][\A h \in Hubs : SendHeartbeat(h) =>
          /\ raised' = raised
          /\ \A p \in PeersOf(h) :
                HeartbeatsTo(h, p) =
                    <<Frame(h, p, Signal(
                        IF \/ connections[h][p].state = "silentlyhoping"
                           \/ connections[h][p].last_seen
                                 < now - max_silence_between_heartbeats
                        THEN PING ELSE PONG))>>]_vars

\* the DeadLetters of the items of queue q, in the order of the queue
DeadLetters(q) ==
    [i \in 1..Len(q) |-> DeadLetter(Ref("None", q[i][1][1], q[i][1][2]), q[i][1][3])]

\* C29: at a heartbeat tick where a peer that is not silentlyhoping has
\* last_seen < now - max_silence_between_heartbeats - time_to_keep_hope, the
\* peer becomes silentlyhoping, every item of its queue becomes one
\* DeadLetter, its queue becomes None and one PING is sent to it; the same
\* when the peer had been silentlyhoping before and had come back.
C29_GivenUp ==
    [][\A h \in Hubs : SendHeartbeat(h) =>
          \A p \in PeersOf(h) :
              /\ connections[h][p].state # "silentlyhoping"
              /\ connections[h][p].last_seen
                    < now - max_silence_between_heartbeats - time_to_keep_hope
              => /\ connections'[h][p].state = "silentlyhoping"
                 /\ IsNone(connections'[h][p].queue)
                 /\ HeartbeatsTo(h, p) = <<Frame(h, p, Signal(PING))>>
                 /\ \A l \in {DeadLetters(Pending(connections[h][p].queue))[i] :
                                i \in 1..Len(Pending(connections[h][p].queue))} :
                       Count(events', l) = Count(events, l) + 1]_vars

\* C30: send(msg) on an Actor with a waiter whose pattern is None or matches
\* msg fires the waiter with the match result, clears it and leaves the
\* mailbox as it was; otherwise msg is appended at the tail of the mailbox
\* and a waiter that does not match stays installed, unfired.
C30_SendFiresOrQueues ==
    [][\A m \in Letters : Send(1, m) =>
          LET w == actors[1].waiting
          IN  IF w # None /\ (w[1].none \/ m \in w[1].accepts)
              THEN /\ actors'[1].waiting = None
                   /\ actors'[1].got_d = Append(actors[1].got_d, m)
                   /\ actors'[1].inbox = actors[1].inbox
              ELSE /\ actors'[1].inbox = Append(actors[1].inbox, m)
                   /\ actors'[1].waiting = w
                   /\ actors'[1].got_d = actors[1].got_d]_vars

\* a waiter for m1 was fired by m1, and a waiter for m1 is installed again
\* with m2, which it does not match, in the mailbox
C30_Witness ==
    /\ 1 \in Made
    /\ actors[1].got_d = <<Msg("m1")>>
    /\ actors[1].waiting = Some(MATCH({Msg("m1")}))
    /\ actors[1].inbox = <<Msg("m2")>>

\* C24: when simulate(duration, step) returns, for duration a positive
\* multiple of step, the clock has advanced by exactly duration since the
\* call and transmit has been called exactly duration / step times.
C24_SimulateDuration ==
    [][LoopTest /\ sim'.pc = "idle" /\ sim.duration > 0
                /\ sim.duration % sim.step = 0 =>
          /\ now - sim.t0 = sim.duration
          /\ sim.transmits = sim.duration \div sim.step]_vars

\* C22: a frame whose bytes are neither a heartbeat nor decode as a payload
\* is dropped by got_message and nothing is raised out of it: the registry,
\* the peer tables and the pending calls are as before, and the frames
\* behind it are handled next.
C22_MalformedDropped ==
    [][GotMessage /\ Head(deliverable).msg = Malformed =>
          /\ raised' = raised
          /\ connections' = connections
          /\ registry' = registry
          /\ calls' = calls
          /\ deliverable' = Tail(deliverable)]_vars

\* -------------------------------------------------- decoding of payloads
\* A Ref's target is the local actor registered at (Hub, path) or a
\* RemoteActor proxy; a Ref crosses the wire as its path and node.
NoPath == ""
LocalActor(h, path) == [cls |-> "Actor", path |-> path, node |-> h, bound_to |-> h]
RemoteActor(path, node, bound_to) ==
    [cls |-> "RemoteActor", path |-> path, node |-> node, bound_to |-> bound_to]
RefState(path, node) == [path |-> path, node |-> node]

\* mutant of make_proxy: a Ref to an actor registered on this Hub gets the
\* actor itself
make_proxyLocal(h, path, node) ==
    IF node = NoNode \/ path = NoPath
    THEN [exc |-> "AssertionError", proxy |-> None]
    ELSE IF node = h /\ path \in registry[h]
    THEN [exc |-> "", proxy |-> Some(LocalActor(h, path))]
    ELSE [exc |-> "", proxy |-> Some(RemoteActor(path, node, h))]

\* Hub.make_proxy with RemoteActor.__init__: both assert their arguments
make_proxy(h, path, node) ==
    IF node = NoNode \/ path = NoPath
    THEN [exc |-> "AssertionError", proxy |-> None]
    ELSE [exc |-> "", proxy |-> Some(RemoteActor(path, node, h))]

\* IncomingMessageUnpickler._load_build for the state dict of a Ref: the
\* proxy is put under 'target' and the default BUILD fills the Ref
_load_build(h, dict_) ==
    LET r == make_proxy(h, dict_.path, dict_.node)
    IN  IF r.exc # "" THEN [exc |-> r.exc, ref |-> None]
        ELSE [exc |-> "", ref |-> Some(Ref(r.proxy[1], dict_.path, dict_.node))]

\* Hub._loads of the pickle of (path, msg), msg a list of Refs: the Refs are
\* built in their order, and the first assertion that fails ends the load
RECURSIVE LoadRefs(_, _)
LoadRefs(h, states) ==
    IF states = <<>> THEN [exc |-> "", refs |-> <<>>]
    ELSE LET b == _load_build(h, Head(states))
             rest == LoadRefs(h, Tail(states))
         IN  IF b.exc # "" THEN [exc |-> b.exc, refs |-> <<>>]
             ELSE IF rest.exc # "" THEN rest
             ELSE [exc |-> "", refs |-> <<b.ref[1]>> \o rest.refs]

_loads(h, data) ==
    LET r == LoadRefs(h, data.msg)
    IN  [exc |-> r.exc, path |-> IF r.exc = "" THEN data.path ELSE NoPath,
         msg |-> r.refs]

\* SpecLoads: one call of _loads on a Hub, for a payload with up to MaxLen
\* Refs whose path and node are any path and address or missing
RefStates == {RefState(p, n) : p \in Paths \cup {NoPath}, n \in Addrs \cup {NoNode}}
Payloads == [kind : {PICKLE}, proto : {2}, path : Paths,
             msg : UNION {[1..k -> RefStates] : k \in 0..MaxLen}]
LoadCalls == [fn : {"_loads"}, hub : Hubs, data : Payloads, ret : {None}]

InitLoads == Fixture /\ call \in LoadCalls

Loads ==
    /\ call.fn = "_loads"
    /\ call.ret = None
    /\ call' = [call EXCEPT !.ret = Some(_loads(call.hub, call.data))]
    /\ UNCHANGED <<hubVars, actorVars>>

SpecLoads == InitLoads /\ [][Loads]_vars

\* the call of _loads has returned a payload
Loaded == call.fn = "_loads" /\ call.ret # None /\ call.ret[1].exc = ""
WellFormed(s) == s.path # NoPath /\ s.node # NoNode

\* C21 as stated: every Ref of a decoded payload has for target the actor
\* registered locally when its node is this Hub's and its path is in the
\* registry, and otherwise a RemoteActor(path, node) bound to this Hub; its
\* path and node are as sent.
C21_LocalOrProxy ==
    Loaded =>
        LET h == call.hub
            sent == call.data.msg
            refs == call.ret[1].msg
        IN  /\ Len(refs) = Len(sent)
            /\ \A i \in 1..Len(sent) :
                  /\ refs[i].path = sent[i].path
                  /\ refs[i].node = sent[i].node
                  /\ refs[i].target =
                        IF sent[i].node = h /\ sent[i].path \in registry[h]
                        THEN LocalActor(h, sent[i].path)
                        ELSE RemoteActor(sent[i].path, sent[i].node, h)

\* C21: decoding a payload whose Refs all have a path and a node gives every
\* Ref the target RemoteActor(path, node) bound to this Hub, also when the
\* node is this Hub's own and the path is registered on it, and leaves path
\* and node as sent; a Ref without path or node makes the decode fail on an
\* assertion.
C21_ProxyForEveryRef ==
    call.fn = "_loads" /\ call.ret # None =>
        LET h == call.hub
            sent == call.data.msg
            ret == call.ret[1]
        IN  IF \A i \in 1..Len(sent) : WellFormed(sent[i])
            THEN /\ ret.exc = ""
                 /\ ret.path = call.data.path
                 /\ Len(ret.msg) = Len(sent)
                 /\ \A i \in 1..Len(sent) :
                       /\ ret.msg[i].path = sent[i].path
                       /\ ret.msg[i].node = sent[i].node
                       /\ ret.msg[i].target =
                             [cls |-> "RemoteActor", path |-> sent[i].path,
                              node |-> sent[i].node, bound_to |-> h]
            ELSE ret.exc = "AssertionError"

\* a payload with a Ref to the actor registered on the decoding Hub itself
\* and a Ref to an actor elsewhere has been decoded
C21_Witness ==
    /\ Loaded
    /\ \E i, j \in 1..Len(call.data.msg) :
          /\ call.data.msg[i].node = call.hub
          /\ call.data.msg[i].path \in registry[call.hub]
          /\ call.ret[1].msg[i].target.cls = "RemoteActor"
          /\ call.data.msg[j].node # call.hub

\* ------------------------------------------------------- pattern matching
\* spinoff/util/pattern_matching.py.  Python values: None, an int, a tuple
\* of values, or the matcher ANY.
PyNone == [t |-> "None", v |-> 0, items |-> <<>>]
PyInt(n) == [t |-> "int", v |-> n, items |-> <<>>]
PyTuple(s) == [t |-> "tuple", v |-> 0, items |-> s]
ANY == [t |-> "ANY", v |-> 0, items |-> <<>>]

\* isinstance(x, tuple), bool(x), _is_collect(pattern), pattern == subject
\* for a pattern that is no tuple
IsTuple(x) == x.t = "tuple"
Truthy(x) ==
    \/ x.t = "tuple" /\ x.items # <<>>
    \/ x.t = "int" /\ x.v # 0
    \/ x.t = "ANY"
_is_collect(pattern) == pattern.t = "ANY"
PyEq(pattern, subject) == pattern.t = "ANY" \/ pattern = subject

\* match's inner function; MatchEach is its loop over the subpatterns and
\* the test behind it
RECURSIVE _match(_, _, _), MatchEach(_, _, _, _, _)
_match(pattern, subject, success) ==
    IF ~IsTuple(pattern)
    THEN [success |-> success /\ PyEq(pattern, subject),
          values |-> IF _is_collect(pattern) THEN <<subject>> ELSE <<>>]
    ELSE MatchEach(pattern.items, subject, IsTuple(subject), success, <<>>)

MatchEach(subpatterns, subject, subject_is_tuple, success, values) ==
    IF subpatterns = <<>>
    THEN [success |-> IF Truthy(subject) THEN FALSE ELSE success,
          values |-> values]
    ELSE LET more == subject_is_tuple /\ Truthy(subject)
             r == _match(Head(subpatterns),
                         IF more THEN subject.items[1] ELSE PyNone, success)
         IN  MatchEach(Tail(subpatterns),
                       IF more THEN PyTuple(Tail(subject.items)) ELSE PyNone,
                       subject_is_tuple, r.success, values \o r.values)

\* match(pattern, subject, flatten=False)
match_unflattened(pattern, subject) == _match(pattern, subject, TRUE)

\* SpecMatch: one call of match, on a subject that is None, 0, 1 or a tuple
\* and a pattern that may hold ANY besides; tuples have up to MaxLen
\* elements, which are no tuples or are tuples of at most one element
Ints == {0, 1}
SubjectLeaves == {PyNone} \cup {PyInt(n) : n \in Ints}
PatternLeaves == SubjectLeaves \cup {ANY}
TuplesOf(S, n) == {PyTuple(s) : s \in UNION {[1..k -> S] : k \in 0..n}}
Subjects == SubjectLeaves \cup TuplesOf(SubjectLeaves \cup TuplesOf(SubjectLeaves, 1), MaxLen)
MatchPatterns == PatternLeaves \cup TuplesOf(PatternLeaves \cup TuplesOf(PatternLeaves, 1), MaxLen)

MatchCalls == [fn : {"match"}, pattern : MatchPatterns, subject : Subjects, ret : {None}]

InitMatch == Fixture /\ call \in MatchCalls

Match ==
    /\ call.fn = "match"
    /\ call.ret = None
    /\ call' = [call EXCEPT !.ret = Some(match_unflattened(call.pattern, call.subject))]
    /\ UNCHANGED <<hubVars, actorVars>>

SpecMatch == InitMatch /\ [][Match]_vars

\* C23: match with a tuple pattern of n elements succeeds exactly when the
\* subject is a tuple of exactly n elements each of which matches the
\* subpattern at its place; a shorter, a longer or a non-tuple subject fails.
C23_TupleLength ==
    call.fn = "match" /\ call.ret # None /\ IsTuple(call.pattern) =>
        (call.ret[1].success <=>
            /\ IsTuple(call.subject)
            /\ Len(call.subject.items) = Len(call.pattern.items)
            /\ \A i \in 1..Len(call.pattern.items) :
                  match_unflattened(call.pattern.items[i],
                                    call.subject.items[i]).success)

\* the Actors made by a's spawn
ChildrenOf(a) == {c \in Made : actors[c].parent = a}

\* a's run has come to its end, by returning or by raising: start's Deferred
\* has its result
RunEnded(a) == actors[a].d = "fired"

\* C31: an Actor whose run has ended, by returning or by raising, and whose
\* children have all terminated (returned, raised or been stopped) is
\* STOPPED.  Nothing is left pending in such an Actor, so the state it has
\* between two calls is the state it keeps.
C31_EndsStopped ==
    \A a \in Made :
        RunEnded(a) /\ (\A c \in ChildrenOf(a) : Terminated(c))
            => actors[a].state = STOPPED

====
